---- MODULE Spec2Model ----
(***************************************************************************)
(* Model of experimental/telemetry_mini/android_go_stories.py:             *)
(* ProcessWatcher (StartWatching, AssertAllAlive) and EnsureSingleBrowser. *)
(* The device (telemetry_mini.AdbMini) and telemetry_mini.RetryOn are      *)
(* collaborators; every device query draws its answer from a bounded set.  *)
(***************************************************************************)
EXTENDS Integers, Sequences, FiniteSets, TLC

\* ------------------------------------------------------------------ bounds
\* PIDs the device hands out are 1..MaxPid.
MaxPid == 2
\* A process name has at most MaxPids PIDs in one ProcessStatus answer.
MaxPids == 2
\* Attempt budget of the retry wrapper around GetPids.
MaxAttempts == 3

\* --------------------------------------------------------------- constants
TwitterPackage == "com.twitter.android"

\* BROWSERS: browser name -> PACKAGE_NAME of the app class.
BROWSERS ==
  [b \in {"android-chrome", "android-chromium", "android-system-chrome"} |->
     CASE b = "android-chrome" -> "com.google.android.apps.chrome"
       [] b = "android-chromium" -> "org.chromium.chrome"
       [] b = "android-system-chrome" -> "com.android.chrome"]

BrowserNames == DOMAIN BROWSERS

BrowserPackages == {BROWSERS[b] : b \in BrowserNames}

\* A package matching the 'chrome' filter that no entry of BROWSERS owns.
UnknownPackage == "com.chrome.beta"

\* What ListPackages('chrome', only_enabled=True) can list.
ChromePackages == BrowserPackages \cup {UnknownPackage}

\* Process names ProcessStatus reports on: the story's app and two browsers.
ProcessNames ==
  {TwitterPackage, BROWSERS["android-chrome"], BROWSERS["android-chromium"]}

PIDs == 1..MaxPid

\* The PID lists ProcessStatus can hold for one name (no PID twice).
PidLists ==
  UNION {{s \in [1..n -> PIDs] : \A i, j \in 1..n : i # j => s[i] # s[j]} :
           n \in 0..MaxPids}

\* ProcessStatus(): a defaultdict(list), name -> list of PIDs ([] if absent).
Snapshots == [ProcessNames -> PidLists]

NoSnapshot == [n \in ProcessNames |-> <<>>]

\* Arguments of StartWatching: a plain name, or an AndroidApp instance
\* (name is then its PACKAGE_NAME).
WatchArgs == [type : {"str", "AndroidApp"}, name : ProcessNames]

NoArg == [type |-> "str", name |-> ""]

\* ------------------------------------------------------------------- state
VARIABLES
  process_pid,   \* ProcessWatcher._process_pid: registered name -> PID
  wpc,           \* position of the watcher's caller:
                 \*   "idle" | "GetPids" | "returned"
  arg,           \* argument of the current/last StartWatching call
  process_name,  \* StartWatching's process_name after normalisation
  polls,         \* answers of the GetPids attempts of that call, in order
  op,            \* the call that returned: "none" | "StartWatching" |
                 \*   "AssertAllAlive"
  result,        \* its outcome: "none" | "ok" | "AssertionError"
  snapshot,      \* the ProcessStatus answer AssertAllAlive read
  report,        \* what AssertAllAlive logged per registered name
  before         \* history: _process_pid when the call was made

watcherVars ==
  <<process_pid, wpc, arg, process_name, polls, op, result, snapshot, report,
    before>>

VARIABLES
  enabled,          \* device: enabled packages matching the 'chrome' filter
  browser_name,     \* EnsureSingleBrowser's argument ("none" before a call)
  force_install,    \* EnsureSingleBrowser's argument
  available_first,  \* available_browsers of the first ListPackages
  available_last,   \* available_browsers of the re-query, before .remove
  calls,            \* history: the device calls of the last call, in order
  effective,        \* history: every Install/Uninstall of it took effect
  esb_result,       \* "none" | "ok" | "AssertionError"
  handle,           \* PACKAGE_NAME of the returned browser ("none" if none)
  previous          \* history: browser_name and esb_result of the call before

browserVars ==
  <<enabled, browser_name, force_install, available_first, available_last,
    calls, effective, esb_result, handle, previous>>

VARIABLES
  pc,         \* position of main and RunStorySteps: the step to run next,
              \*   "Done", "Failed", or "none" when no run is modelled
  steps,      \* history: the steps of the run begun so far, in order
  failed_at   \* history: the step whose assertion ended the run ("none")

runVars == <<pc, steps, failed_at>>

vars == <<watcherVars, browserVars, runVars>>

EmptyMap == [n \in {} |-> 0]

\* Variant: the dict is replaced by one holding the new entry alone.
Put_Replaces(d, k, v) == [n \in {k} |-> v]

\* d[k] = v
Put(d, k, v) == [n \in DOMAIN d \cup {k} |-> IF n = k THEN v ELSE d[n]]

\* ---------------------------------------------------------- ProcessWatcher
\* isinstance(process_name, AndroidApp) -> process_name.PACKAGE_NAME
Normalize(a) == a.name

\* The retry wrapper stops at the first truthy answer or when the attempt
\* budget is used up; it returns the last answer either way.
RetryDone(answers) ==
  answers[Len(answers)] # <<>> \/ Len(answers) >= MaxAttempts

\* Variant: the duplicate check is missing.
NotRegistered_Unchecked(reg, n) == TRUE

\* assert process_name not in self._process_pid
NotRegistered(reg, n) == n \notin DOMAIN reg

\* Variant: the single-PID assert is missing, the first PID is taken.
Registers_TakesFirst(pids) == pids # <<>>

\* The asserts on what GetPids returned.
Registers(pids) == pids # <<>> /\ Len(pids) = 1

\* Variant: a name that is present counts as alive, whatever its PIDs.
Classify_ByPresence(new_pids, old_pid) ==
  IF new_pids = <<>> THEN "died" ELSE "alive"

\* Variant: the old PID among the new ones counts as alive.
Classify_ByMembership(new_pids, old_pid) ==
  IF new_pids = <<>> THEN "died"
  ELSE IF \A i \in DOMAIN new_pids : new_pids[i] # old_pid THEN "restarted"
  ELSE "alive"

\* The per-process branch of AssertAllAlive's loop.
Classify(new_pids, old_pid) ==
  IF new_pids = <<>> THEN "died"
  ELSE IF new_pids # <<old_pid>> THEN "restarted"
  ELSE "alive"

\* The loop of AssertAllAlive: what it logs for each registered name.
Report(reg, status) ==
  [n \in DOMAIN reg |-> Classify(status[n], reg[n])]

\* Variant: the loop runs over the names of the status, not of the registry.
AllAlive_OverStatus(reg, status) ==
  /\ \A n \in DOMAIN reg : Report(reg, status)[n] = "alive"
  /\ \A n \in ProcessNames \ DOMAIN reg : status[n] = <<>>

\* all_alive at the end of the loop.
AllAlive(reg, status) ==
  \A n \in DOMAIN reg : Report(reg, status)[n] = "alive"

WatcherInit ==
  /\ process_pid = EmptyMap
  /\ wpc = "idle"
  /\ arg = NoArg
  /\ process_name = ""
  /\ polls = <<>>
  /\ op = "none"
  /\ result = "none"
  /\ snapshot = NoSnapshot
  /\ report = EmptyMap
  /\ before = EmptyMap

\* StartWatching up to the call of GetPids: normalisation and the
\* not-already-registered assert.
StartWatching(a) ==
  /\ wpc = "idle"
  /\ arg' = a
  /\ process_name' = Normalize(a)
  /\ before' = process_pid
  /\ IF NotRegistered(process_pid, Normalize(a))
       THEN /\ wpc' = "GetPids"
            /\ UNCHANGED <<op, result>>
       ELSE /\ wpc' = "returned"
            /\ op' = "StartWatching"
            /\ result' = "AssertionError"
  /\ UNCHANGED <<process_pid, polls, snapshot, report>>

\* Variant: the registration at the end of StartWatching is missing.
Register_NoStore(pids) ==
  /\ result' = IF Registers(pids) THEN "ok" ELSE "AssertionError"
  /\ UNCHANGED process_pid

\* Variant: the first PID is stored before the single-PID assert.
Register_StoresFirst(pids) ==
  IF pids = <<>>
    THEN /\ result' = "AssertionError"
         /\ UNCHANGED process_pid
    ELSE /\ process_pid' = Put(process_pid, process_name, pids[1])
         /\ result' = IF Len(pids) = 1 THEN "ok" ELSE "AssertionError"

\* Variant: an empty answer ends the call quietly instead of raising.
Register_SkipsEmpty(pids) ==
  IF pids = <<>>
    THEN /\ result' = "ok"
         /\ UNCHANGED process_pid
    ELSE IF Len(pids) = 1
      THEN /\ process_pid' = Put(process_pid, process_name, pids[1])
           /\ result' = "ok"
      ELSE /\ result' = "AssertionError"
           /\ UNCHANGED process_pid

\* StartWatching after GetPids returned pids: the two asserts, then the
\* registration.
Register(pids) ==
  IF Registers(pids)
    THEN /\ process_pid' = Put(process_pid, process_name, pids[1])
         /\ result' = "ok"
    ELSE /\ result' = "AssertionError"
         /\ UNCHANGED process_pid

\* One attempt of GetPids with the device's answer for process_name and,
\* when the retry wrapper returns, the rest of StartWatching.
GetPids(pids) ==
  /\ wpc = "GetPids"
  /\ polls' = Append(polls, pids)
  /\ IF RetryDone(Append(polls, pids))
       THEN /\ wpc' = "returned"
            /\ op' = "StartWatching"
            /\ Register(pids)
       ELSE UNCHANGED <<wpc, op, result, process_pid>>
  /\ UNCHANGED <<arg, process_name, snapshot, report, before>>

AssertAllAlive(status) ==
  /\ wpc = "idle"
  /\ wpc' = "returned"
  /\ before' = process_pid
  /\ snapshot' = status
  /\ report' = Report(process_pid, status)
  /\ op' = "AssertAllAlive"
  /\ result' = IF AllAlive(process_pid, status) THEN "ok" ELSE "AssertionError"
  /\ UNCHANGED <<process_pid, arg, process_name, polls>>

\* The call has returned (or raised): its locals are gone, the watcher and
\* its registry stay, and the caller may make its next call.
Return ==
  /\ wpc = "returned"
  /\ wpc' = "idle"
  /\ arg' = NoArg
  /\ process_name' = ""
  /\ polls' = <<>>
  /\ op' = "none"
  /\ result' = "none"
  /\ snapshot' = NoSnapshot
  /\ report' = EmptyMap
  /\ before' = EmptyMap
  /\ UNCHANGED process_pid

WatcherNext ==
  \/ (\E a \in WatchArgs : StartWatching(a))
       /\ UNCHANGED <<browserVars, runVars>>
  \/ (\E pids \in PidLists : GetPids(pids))
       /\ UNCHANGED <<browserVars, runVars>>
  \/ (\E status \in Snapshots : AssertAllAlive(status))
       /\ UNCHANGED <<browserVars, runVars>>
  \/ Return /\ UNCHANGED <<browserVars, runVars>>

\* ------------------------------------------------------ EnsureSingleBrowser
\* The orders BROWSERS.itervalues() may take.
Orders ==
  {o \in [1..Cardinality(BrowserNames) -> BrowserNames] :
     \A i, j \in DOMAIN o : i # j => o[i] # o[j]}

Call(what, package) == [call |-> what, package |-> package]

\* device.ListPackages('chrome', only_enabled=True)
ListPackages(dev) == dev

\* browser.Install() on the device; ok: the call takes effect.
Install(dev, package, ok) == IF ok THEN dev \cup {package} ELSE dev

\* browser.Uninstall() on the device; ok: the call takes effect.
Uninstall(dev, package, ok) == IF ok THEN dev \ {package} ELSE dev

\* Variant: the browser is installed whatever the first query lists.
ShouldInstall_Always(force, package, available) == TRUE

\* Variant: force_install is ignored.
ShouldInstall_IgnoresForce(force, package, available) ==
  package \notin available

\* if force_install or browser.PACKAGE_NAME not in available_browsers
ShouldInstall(force, package, available) ==
  force \/ package \notin available

\* Variant: every other known browser is uninstalled, listed or not.
ShouldUninstall_Unlisted(other, package, available) == other # package

\* Variant: the selected browser is not spared by the loop.
ShouldUninstall_NotSparing(other, package, available) ==
  other \in available

\* The condition of the uninstall loop's body.
ShouldUninstall(other, package, available) ==
  other # package /\ other \in available

\* The packages the loop calls Uninstall for, in the order of the loop.
RECURSIVE UninstallList(_, _, _)
UninstallList(order, package, available) ==
  IF order = <<>> THEN <<>>
  ELSE LET other == BROWSERS[Head(order)]
           rest == UninstallList(Tail(order), package, available)
       IN IF ShouldUninstall(other, package, available)
            THEN <<other>> \o rest
            ELSE rest

\* The device after the Uninstall calls for the packages of list.
RECURSIVE UninstallAll(_, _, _)
UninstallAll(dev, list, took) ==
  IF list = <<>> THEN dev
  ELSE UninstallAll(Uninstall(dev, Head(list), Head(list) \in took),
                    Tail(list), took)

\* Variant: the assert on the other browsers is missing.
Verified_OnlySelected(package, available) == package \in available

\* Variant: the assert on the selected browser is missing.
Verified_OnlyOthers(package, available) == available \ {package} = {}

\* The two asserts on the re-queried available_browsers.
Verified(package, available) ==
  /\ package \in available
  /\ available \ {package} = {}

Range(q) == {q[i] : i \in DOMAIN q}

NoCall == [name |-> "none", result |-> "none"]

BrowserInit ==
  /\ enabled \in SUBSET ChromePackages
  /\ browser_name = "none"
  /\ force_install = FALSE
  /\ available_first = {}
  /\ available_last = {}
  /\ calls = <<>>
  /\ effective = TRUE
  /\ esb_result = "none"
  /\ handle = "none"
  /\ previous = NoCall

\* EnsureSingleBrowser(device, name, force); order: the order of the loop
\* over BROWSERS; install_ok, uninstall_ok: which device calls take effect.
EnsureSingleBrowser(name, force, order, install_ok, uninstall_ok) ==
  LET package == BROWSERS[name]
      available == ListPackages(enabled)
      installs == ShouldInstall(force, package, available)
      dev1 == IF installs THEN Install(enabled, package, install_ok)
              ELSE enabled
      others == UninstallList(order, package, available)
      dev2 == UninstallAll(dev1, others, uninstall_ok)
      requery == ListPackages(dev2)
  IN /\ previous' = [name |-> browser_name, result |-> esb_result]
     /\ browser_name' = name
     /\ force_install' = force
     /\ available_first' = available
     /\ enabled' = dev2
     /\ available_last' = requery
     /\ calls' = <<Call("ListPackages", "chrome")>>
                 \o (IF installs THEN <<Call("Install", package)>> ELSE <<>>)
                 \o [i \in DOMAIN others |-> Call("Uninstall", others[i])]
                 \o <<Call("ListPackages", "chrome")>>
     /\ effective' = /\ installs => install_ok
                     /\ Range(others) \subseteq uninstall_ok
     /\ IF Verified(package, requery)
          THEN /\ esb_result' = "ok"
               /\ handle' = package
          ELSE /\ esb_result' = "AssertionError"
               /\ handle' = "none"

BrowserNext ==
  (\E name \in BrowserNames, force \in BOOLEAN, order \in Orders,
      install_ok \in BOOLEAN, uninstall_ok \in SUBSET BrowserPackages :
     EnsureSingleBrowser(name, force, order, install_ok, uninstall_ok))
  /\ UNCHANGED <<watcherVars, runVars>>

\* No run of main: the watcher or EnsureSingleBrowser is called on its own.
NoRun ==
  /\ pc = "none"
  /\ steps = <<>>
  /\ failed_at = "none"

Init == WatcherInit /\ BrowserInit /\ NoRun

FixedDevice ==
  /\ enabled = {}
  /\ browser_name = "none"
  /\ force_install = FALSE
  /\ available_first = {}
  /\ available_last = {}
  /\ calls = <<>>
  /\ effective = TRUE
  /\ esb_result = "none"
  /\ handle = "none"
  /\ previous = NoCall

InitWatcher == WatcherInit /\ FixedDevice /\ NoRun

SpecWatcher == InitWatcher /\ [][WatcherNext]_vars

SpecBrowser == Init /\ [][BrowserNext]_vars

Next == WatcherNext \/ BrowserNext

Spec == Init /\ [][Next]_vars

\* ------------------------------------------------- main and RunStorySteps
\* The statements of main from EnsureSingleBrowser on, with those of
\* RunStorySteps in place of story.Run.
Script ==
  <<"EnsureSingleBrowser", "TwitterFlipkartStory", "StartActivity",
    "StartWatching_twitter", "TapUiElement", "StartWatching_browser",
    "SwipeUp", "GoBack", "AssertAllAlive">>

WatchSteps == {"StartWatching_twitter", "StartWatching_browser"}

\* The position of step p in the script (0 if it is none of its steps).
Position(p) ==
  IF \E i \in DOMAIN Script : Script[i] = p
    THEN CHOOSE i \in DOMAIN Script : Script[i] = p
    ELSE 0

\* Variant: the liveness assertion comes before the browser is watched.
NextStep_AssertsEarly(p) ==
  CASE p = "TapUiElement" -> "AssertAllAlive"
    [] p = "AssertAllAlive" -> "StartWatching_browser"
    [] p = "StartWatching_browser" -> "SwipeUp"
    [] p = "GoBack" -> "Done"
    [] OTHER -> Script[Position(p) + 1]

\* Variant: the sleep after watching the browser is a wait that never ends.
NextStep_WaitsForever(p) ==
  IF p = "StartWatching_browser" THEN "WaitUntilPageLoaded"
  ELSE IF Position(p) = Len(Script) THEN "Done"
  ELSE Script[Position(p) + 1]

\* The statement after step p when p raised nothing.
NextStep(p) ==
  IF Position(p) = Len(Script) THEN "Done" ELSE Script[Position(p) + 1]

\* Variant: the assertion of a step is caught and the run goes on.
Raised_Swallowed(p) == NextStep(p)

\* Where an AssertionError raised by step p leaves the run: nothing
\* catches it.
Raised(p) == "Failed"

\* StoryRunner's states.
Phase(p) ==
  CASE p \in {"EnsureSingleBrowser", "TwitterFlipkartStory"} -> "Provisioning"
    [] p = "AssertAllAlive" -> "Verifying"
    [] p \in {"Done", "Failed"} -> p
    [] OTHER -> "Executing"

\* What the story passes to StartWatching: self.twitter, self.browser.
WatchArg(p) ==
  [type |-> "AndroidApp",
   name |-> IF p = "StartWatching_twitter" THEN TwitterPackage ELSE handle]

\* ProcessStatus during the story: the lists of the story's two apps vary,
\* no other process of interest runs.
StorySnapshots ==
  {[n \in {TwitterPackage, handle} \cup BrowserPackages |->
      IF n \in DOMAIN f THEN f[n] ELSE <<>>] :
     f \in [{TwitterPackage, handle} -> PidLists]}

\* The step at pc has begun; it ends the run if it raised.
Advance(raised) ==
  /\ steps' = Append(steps, pc)
  /\ pc' = IF raised THEN Raised(pc) ELSE NextStep(pc)
  /\ failed_at' = IF raised THEN pc ELSE failed_at

InitRun ==
  /\ WatcherInit
  /\ BrowserInit
  /\ pc = "EnsureSingleBrowser"
  /\ steps = <<>>
  /\ failed_at = "none"

\* main: browser = EnsureSingleBrowser(device, args.browser,
\* args.force_install)
MainEnsureSingleBrowser ==
  /\ pc = "EnsureSingleBrowser"
  /\ \E name \in BrowserNames, force \in BOOLEAN, order \in Orders,
        install_ok \in BOOLEAN, uninstall_ok \in SUBSET BrowserPackages :
       EnsureSingleBrowser(name, force, order, install_ok, uninstall_ok)
  /\ Advance(esb_result' # "ok")
  /\ UNCHANGED watcherVars

\* main: story = TwitterFlipkartStory(browser), with a new ProcessWatcher;
\* only the browser is left of EnsureSingleBrowser's call.
MainTwitterFlipkartStory ==
  /\ pc = "TwitterFlipkartStory"
  /\ process_pid' = EmptyMap
  /\ force_install' = FALSE
  /\ available_first' = {}
  /\ available_last' = {}
  /\ calls' = <<>>
  /\ effective' = TRUE
  /\ previous' = NoCall
  /\ Advance(FALSE)
  /\ UNCHANGED <<wpc, arg, process_name, polls, op, result, snapshot, report,
                 before, enabled, browser_name, esb_result, handle>>

\* A step of self.actions: it acts on the device's screen only.
UiAction(step) ==
  /\ pc = step
  /\ Advance(FALSE)
  /\ UNCHANGED <<watcherVars, browserVars>>

StartActivity == UiAction("StartActivity")

TapUiElement == UiAction("TapUiElement")

SwipeUp == UiAction("SwipeUp")

GoBack == UiAction("GoBack")

\* self.watcher.StartWatching(self.twitter) or (self.browser), up to the
\* call of GetPids.
StoryStartWatching ==
  /\ pc \in WatchSteps
  /\ StartWatching(WatchArg(pc))
  /\ steps' = Append(steps, pc)
  /\ IF wpc' = "returned"
       THEN /\ pc' = Raised(pc)
            /\ failed_at' = pc
       ELSE UNCHANGED <<pc, failed_at>>
  /\ UNCHANGED browserVars

\* An attempt of GetPids within the story's StartWatching; the last one
\* ends the run if StartWatching raised.
StoryGetPids(pids) ==
  /\ pc \in WatchSteps
  /\ GetPids(pids)
  /\ IF wpc' = "returned" /\ result' # "ok"
       THEN /\ pc' = Raised(pc)
            /\ failed_at' = pc
       ELSE UNCHANGED <<pc, failed_at>>
  /\ UNCHANGED <<steps, browserVars>>

\* StartWatching returned to RunStorySteps, which goes on.
StoryReturn ==
  /\ pc \in WatchSteps
  /\ result = "ok"
  /\ Return
  /\ pc' = NextStep(pc)
  /\ UNCHANGED <<steps, failed_at, browserVars>>

\* self.watcher.AssertAllAlive(), the last statement of RunStorySteps.
StoryAssertAllAlive ==
  /\ pc = "AssertAllAlive"
  /\ \E status \in StorySnapshots : AssertAllAlive(status)
  /\ Advance(result' # "ok")
  /\ UNCHANGED browserVars

RunNext ==
  \/ MainEnsureSingleBrowser
  \/ MainTwitterFlipkartStory
  \/ StartActivity
  \/ TapUiElement
  \/ SwipeUp
  \/ GoBack
  \/ StoryStartWatching
  \/ \E pids \in PidLists : StoryGetPids(pids)
  \/ StoryReturn
  \/ StoryAssertAllAlive

SpecRun == InitRun /\ [][RunNext]_vars

\* main is one thread that runs on as long as a statement is left.
SpecRunLive == InitRun /\ [][RunNext]_vars /\ WF_vars(RunNext)

\* ------------------------------------------------- claims: ProcessWatcher
Returned(o) == wpc = "returned" /\ op = o

\* The answer for every name outside the registry replaced by l.
Masked(status, reg, l) ==
  [n \in ProcessNames |-> IF n \in DOMAIN reg THEN status[n] ELSE l]

\* The first truthy answer among the attempts of the call, <<>> if none.
FirstTruthy(answers) ==
  IF \A i \in DOMAIN answers : answers[i] = <<>> THEN <<>>
  ELSE answers[CHOOSE i \in DOMAIN answers :
                 /\ answers[i] # <<>>
                 /\ \A j \in 1..(i - 1) : answers[j] = <<>>]

\* C1: AssertAllAlive returns successfully iff every registered name's PID
\* list in the snapshot is exactly the one-element list of its recorded PID;
\* otherwise it raises AssertionError.
C1_AssertAllAliveExact ==
  Returned("AssertAllAlive") =>
    /\ result \in {"ok", "AssertionError"}
    /\ result = "ok" <=>
         \A n \in DOMAIN process_pid : snapshot[n] = <<process_pid[n]>>

C1_Witness ==
  /\ Returned("AssertAllAlive")
  /\ result = "ok"
  /\ Cardinality(DOMAIN process_pid) >= 2

\* C2: a flagged process is 'died' exactly when its PID list in the snapshot
\* is empty and 'restarted' exactly when the list is non-empty and differs
\* from the single recorded PID (another PID, or the old PID next to others).
C2_DiedOrRestarted ==
  Returned("AssertAllAlive") =>
    /\ DOMAIN report = DOMAIN process_pid
    /\ \A n \in DOMAIN process_pid :
         /\ report[n] = "died" <=> snapshot[n] = <<>>
         /\ report[n] = "restarted" <=>
              (snapshot[n] # <<>> /\ snapshot[n] # <<process_pid[n]>>)

C2_Witness ==
  /\ Returned("AssertAllAlive")
  /\ \E n \in DOMAIN process_pid :
       /\ report[n] = "restarted"
       /\ Len(snapshot[n]) = 2
       /\ snapshot[n][1] = process_pid[n]

\* C3: the outcome of AssertAllAlive depends only on the PID lists of the
\* registered names: replacing the list of every unregistered name by any
\* list gives the same outcome.
C3_OnlyRegisteredNames ==
  Returned("AssertAllAlive") =>
    \A l \in PidLists :
      AllAlive(process_pid, Masked(snapshot, process_pid, l))
        <=> (result = "ok")

C3_Witness ==
  /\ Returned("AssertAllAlive")
  /\ result = "ok"
  /\ process_pid # EmptyMap
  /\ \E n \in ProcessNames \ DOMAIN process_pid : Len(snapshot[n]) = 2
  /\ \E n \in ProcessNames \ DOMAIN process_pid : snapshot[n] = <<>>

\* C4: StartWatching of a name already in the registry (given as a name or
\* as an app) raises AssertionError before any ProcessStatus query is made.
C4_DuplicateFailsFirst ==
  (Returned("StartWatching") /\ process_name \in DOMAIN before) =>
    /\ result = "AssertionError"
    /\ polls = <<>>
    /\ process_pid = before

C4_Witness ==
  /\ Returned("StartWatching")
  /\ process_name \in DOMAIN before
  /\ arg.type = "AndroidApp"
  /\ result = "AssertionError"

\* C5: if every attempt of the budget answered with an empty PID list,
\* StartWatching raises AssertionError and the name is not registered.
C5_NeverFoundFails ==
  (Returned("StartWatching") /\ polls # <<>> /\ FirstTruthy(polls) = <<>>) =>
    /\ Len(polls) = MaxAttempts
    /\ result = "AssertionError"
    /\ process_name \notin DOMAIN process_pid

C5_Witness ==
  /\ Returned("StartWatching")
  /\ Len(polls) = MaxAttempts
  /\ \A i \in DOMAIN polls : polls[i] = <<>>
  /\ result = "AssertionError"

\* C6: if the first non-empty PID list of the polling has more than one
\* element, StartWatching raises AssertionError and the name is not
\* registered.
C6_AmbiguousFails ==
  (Returned("StartWatching") /\ Len(FirstTruthy(polls)) > 1) =>
    /\ result = "AssertionError"
    /\ process_name \notin DOMAIN process_pid

C6_Witness ==
  /\ Returned("StartWatching")
  /\ Len(polls) > 1
  /\ Len(FirstTruthy(polls)) > 1
  /\ result = "AssertionError"

\* C17: if a poll within the budget answers with a single PID after any
\* number of empty answers, StartWatching succeeds, has stopped polling at
\* that first non-empty answer and records exactly its PID for the name.
C17_FirstAnswerRecorded ==
  (Returned("StartWatching") /\ Len(FirstTruthy(polls)) = 1) =>
    /\ result = "ok"
    /\ Len(polls) <= MaxAttempts
    /\ polls[Len(polls)] = FirstTruthy(polls)
    /\ \A i \in 1..(Len(polls) - 1) : polls[i] = <<>>
    /\ process_pid = Put(before, process_name, FirstTruthy(polls)[1])

C17_Witness ==
  /\ Returned("StartWatching")
  /\ Len(polls) = MaxAttempts
  /\ Len(FirstTruthy(polls)) = 1
  /\ result = "ok"
  /\ process_name \in DOMAIN process_pid

\* C18: over any sequence of StartWatching and AssertAllAlive calls the
\* registry only grows: no entry is removed, no recorded PID changes, and
\* AssertAllAlive leaves the registry as it was.
C18_RegistryOnlyGrows ==
  [][/\ \A n \in DOMAIN process_pid :
          /\ n \in DOMAIN process_pid'
          /\ process_pid'[n] = process_pid[n]
     /\ (wpc' = "returned" /\ op' = "AssertAllAlive") =>
          process_pid' = process_pid]_vars

C18_Witness ==
  /\ Returned("AssertAllAlive")
  /\ result = "AssertionError"
  /\ Cardinality(DOMAIN process_pid) >= 2
  /\ process_pid = before

\* C20: a StartWatching call that raises (duplicate name, no PID within the
\* budget, more than one PID) leaves the registry exactly as it was before
\* the call.
C20_FailedCallKeepsRegistry ==
  (Returned("StartWatching") /\ result = "AssertionError") =>
    process_pid = before

C20_Witness ==
  /\ Returned("StartWatching")
  /\ result = "AssertionError"
  /\ Len(FirstTruthy(polls)) > 1
  /\ before # EmptyMap
  /\ process_pid = before

\* -------------------------------------------- claims: EnsureSingleBrowser
Called == esb_result # "none"

Selected == BROWSERS[browser_name]

\* The positions of the calls of one kind in the call history.
CallsOf(what) == {i \in DOMAIN calls : calls[i].call = what}

\* C7: from any set of enabled packages of known variants, with Install and
\* Uninstall taking effect, EnsureSingleBrowser raises nothing, returns the
\* selected browser, and leaves it enabled and every other known variant
\* not enabled.
C7_KnownVariantsReconciled ==
  (Called /\ effective /\ available_first \subseteq BrowserPackages) =>
    /\ esb_result = "ok"
    /\ handle = Selected
    /\ enabled \cap BrowserPackages = {Selected}

C7_Witness ==
  /\ Called
  /\ effective
  /\ available_first = BrowserPackages \ {Selected}
  /\ esb_result = "ok"
  /\ handle = Selected

\* C8 as claimed: from an arbitrary set of enabled packages matching the
\* filter, with Install and Uninstall taking effect, EnsureSingleBrowser
\* succeeds and the selected package is the only one enabled.
C8_AnyStartReconciled ==
  (Called /\ effective) =>
    /\ esb_result = "ok"
    /\ enabled = {Selected}

\* C8, amended: with Install and Uninstall taking effect, EnsureSingleBrowser
\* succeeds exactly when every package of the starting set belongs to a known
\* variant; a package of no known variant is never uninstalled, stays enabled
\* and makes the call raise AssertionError; whenever the call succeeds the
\* selected package is the only one enabled.
C8_ReconciledUnlessUnknown ==
  Called =>
    /\ effective => (esb_result = "ok" <=>
                       available_first \subseteq BrowserPackages)
    /\ available_first \ BrowserPackages \subseteq enabled
    /\ \A i \in CallsOf("Uninstall") : calls[i].package \in BrowserPackages
    /\ esb_result = "ok" => enabled = {Selected}

C8_Witness ==
  /\ Called
  /\ effective
  /\ UnknownPackage \in available_first
  /\ CallsOf("Uninstall") # {}
  /\ enabled = {Selected, UnknownPackage}
  /\ esb_result = "AssertionError"

\* C9: EnsureSingleBrowser returns the browser only if the set re-queried
\* after the Install and Uninstall calls is exactly the selected package;
\* otherwise it raises AssertionError, whether or not the calls took effect.
C9_VerifiedByRequery ==
  Called =>
    /\ calls[Len(calls)].call = "ListPackages"
    /\ available_last = enabled
    /\ esb_result = "ok" <=> available_last = {Selected}
    /\ esb_result = "ok" => handle = Selected
    /\ esb_result # "ok" => (esb_result = "AssertionError" /\ handle = "none")

C9_Witness ==
  /\ Called
  /\ ~effective
  /\ CallsOf("Install") # {}
  /\ available_last = {}
  /\ esb_result = "AssertionError"

\* C10: Install is invoked exactly once, for the selected browser and before
\* the re-query, when force_install is set or the selected package is absent
\* from the first query; otherwise it is not invoked.
C10_InstallWhenNeeded ==
  Called =>
    /\ Cardinality(CallsOf("Install")) =
         (IF force_install \/ Selected \notin available_first THEN 1 ELSE 0)
    /\ \A i \in CallsOf("Install") :
         /\ calls[i].package = Selected
         /\ \E j \in CallsOf("ListPackages") : i < j

C10_Witness ==
  /\ Called
  /\ force_install
  /\ Selected \in available_first
  /\ CallsOf("Install") # {}
  /\ esb_result = "ok"

\* C11: run again with force_install unset on the device a successful run
\* for the same browser left, EnsureSingleBrowser invokes neither Install nor
\* Uninstall, leaves the enabled packages as they were, and succeeds with a
\* handle for the same browser.
C11_Idempotent ==
  (/\ Called
   /\ previous.result = "ok"
   /\ previous.name = browser_name
   /\ ~force_install) =>
    /\ CallsOf("Install") = {}
    /\ CallsOf("Uninstall") = {}
    /\ enabled = available_first
    /\ esb_result = "ok"
    /\ handle = Selected

C11_Witness ==
  /\ Called
  /\ previous.result = "ok"
  /\ previous.name = browser_name
  /\ ~force_install
  /\ Len(calls) = 2
  /\ esb_result = "ok"

\* C16: Uninstall is invoked once for each known variant whose package
\* differs from the selected one and was in the first query, and for no
\* other package.
C16_UninstallExactlyOthers ==
  Called =>
    /\ {calls[i].package : i \in CallsOf("Uninstall")} =
         (available_first \cap BrowserPackages) \ {Selected}
    /\ \A i, j \in CallsOf("Uninstall") :
         calls[i].package = calls[j].package => i = j

C16_Witness ==
  /\ Called
  /\ Cardinality(CallsOf("Uninstall")) = 1
  /\ Selected \in available_first
  /\ BrowserPackages \ available_first # {}
  /\ UnknownPackage \in available_first

\* ----------------------------------------------------- claims: the run
\* The positions of step p among the steps begun so far.
Begun(p) == {i \in DOMAIN steps : steps[i] = p}

Registered == {TwitterPackage, handle}

\* C12: no StartWatching happens before EnsureSingleBrowser has returned
\* the verified browser, none happens after AssertAllAlive, and the single
\* AssertAllAlive comes after the registration of the app and then of the
\* browser.
C12_ProvisionWatchAssert ==
  /\ \A i \in DOMAIN steps :
       steps[i] \in WatchSteps =>
         /\ esb_result = "ok"
         /\ handle = Selected
         /\ enabled = {handle}
         /\ \E j \in Begun("EnsureSingleBrowser") : j < i
         /\ \A j \in Begun("AssertAllAlive") : i < j
  /\ \A i \in Begun("AssertAllAlive") :
       \E j \in Begun("StartWatching_twitter") :
         \E k \in Begun("StartWatching_browser") : j < k /\ k < i
  /\ Cardinality(Begun("AssertAllAlive")) <= 1

C12_Witness ==
  /\ pc = "Done"
  /\ Begun("AssertAllAlive") # {}
  /\ DOMAIN process_pid = Registered

\* C13: if EnsureSingleBrowser raises, the run is Failed and no story step
\* was executed: no UI action, no StartWatching, no AssertAllAlive, and the
\* registry is empty.
C13_ProvisioningFailureAborts ==
  esb_result = "AssertionError" =>
    /\ pc = "Failed"
    /\ failed_at = "EnsureSingleBrowser"
    /\ steps = <<"EnsureSingleBrowser">>
    /\ process_pid = EmptyMap
    /\ op = "none"
    /\ wpc = "idle"

C13_Witness ==
  /\ esb_result = "AssertionError"
  /\ pc = "Failed"
  /\ available_last # {}

\* C14: an assertion raised by a step sends the run to Failed at once: the
\* steps begun are the script up to the raising step and no later one, and
\* a run that has failed stays Failed and is never Done.
C14_RaiseAbortsRun ==
  /\ (result = "AssertionError" \/ esb_result = "AssertionError") =>
       failed_at # "none"
  /\ failed_at # "none" =>
       /\ pc = "Failed"
       /\ steps = SubSeq(Script, 1, Position(failed_at))
  /\ pc = "Done" => (failed_at = "none" /\ steps = Script)

C14_Witness ==
  /\ failed_at = "StartWatching_browser"
  /\ pc = "Failed"
  /\ DOMAIN process_pid = {TwitterPackage}
  /\ steps[Len(steps)] = "StartWatching_browser"

\* C15: with both watchers registered, the run ends only at the final
\* AssertAllAlive, after every step of the script: Done if both processes
\* have their recorded PID alone in the final snapshot, Failed by
\* AssertAllAlive otherwise.
C15_VerdictAtVerification ==
  (DOMAIN process_pid = Registered /\ Cardinality(Registered) = 2) =>
    /\ Phase(pc) \in {"Executing", "Verifying", "Done", "Failed"}
    /\ pc \in {"Done", "Failed"} =>
         /\ steps = Script
         /\ op = "AssertAllAlive"
         /\ pc = "Done" <=>
              \A n \in Registered : snapshot[n] = <<process_pid[n]>>
         /\ pc = "Failed" => failed_at = "AssertAllAlive"

C15_Witness ==
  /\ DOMAIN process_pid = Registered
  /\ pc = "Failed"
  /\ steps = Script
  /\ snapshot[TwitterPackage] = <<process_pid[TwitterPackage]>>
  /\ Len(snapshot[handle]) = 1
  /\ snapshot[handle] # <<process_pid[handle]>>

\* C19: every run ends: it eventually is Done or Failed, whatever the
\* device answers.
C19_RunTerminates == <>(pc \in {"Done", "Failed"})

C19_Witness ==
  /\ pc = "Failed"
  /\ failed_at = "StartWatching_twitter"
  /\ Len(polls) = MaxAttempts

====
